---- MODULE Spec2Model ----
(***************************************************************************)
(* Model of the leptos-cloudflare integration (leptos-cloudflare/src/lib.rs*)
(* ): one request served by one of the four rendering handlers registered  *)
(* by leptos_routes.  The handler's position is pc; the renderer (the      *)
(* leptos fragment stream) and the transport (the consumer of the          *)
(* ReadableStream built by Response::from_stream) are the environment.     *)
(***************************************************************************)
EXTENDS Integers, Sequences, FiniteSets, TLC

(* ---------------------------- bounds ---------------------------------- *)
\* largest number of fragments the underlying leptos stream yields
MaxFrags == 3
\* largest number of redirect() calls made by rendering code in one request
MaxRedirects == 2
\* largest number of header writes made by rendering code in one request
MaxWrites == 2
\* largest number of values under one header key of a ResponseOptions
MaxValues == 2
\* largest number of RouteListings given to leptos_routes
MaxListings == 2
\* largest number of routes discovered in the application
MaxRoutes == 2
\* number of requests handled concurrently by one worker
MaxRequests == 2

(* --------------------------- vocabulary -------------------------------- *)
Modes == {"OutOfOrder", "PartiallyBlocked", "InOrder", "Async"}
StreamingModes == {"OutOfOrder", "PartiallyBlocked", "InOrder"}
Paths == {"/login", "/home"}
HeaderKeys == {"content-type", "location"}

\* Option<u16>: None is <<>>, Some(s) is <<s>>
None == <<>>
Some(s) == <<s>>
unwrap_or(opt, d) == IF opt = None THEN d ELSE opt[1]

\* markup chunks: <<kind, n>>
NoChunk == <<"none", 0>>
EmptyChunk == <<"empty", 0>>
Frag(i) == <<"frag", i>>
TailChunk == <<"tail", 0>>

(* ------------------------- worker::Headers ----------------------------- *)
\* Headers::new(): a multimap with no value under any key
Headers_new == [k \in HeaderKeys |-> <<>>]
\* Headers::set: overwrite every value of the key
Headers_set(h, k, v) == [h EXCEPT ![k] = <<v>>]
\* Headers::append: add alongside the existing values of the key
Headers_append(h, k, v) == [h EXCEPT ![k] = Append(@, v)]

(* ------------------------- ResponseOptions ----------------------------- *)
ResponseOptions_default == [status |-> Some(200), headers |-> Headers_new]
\* Variant of insert_header: the value is added alongside the existing ones.
insert_header_appending(o, k, v) ==
    [o EXCEPT !.headers = Headers_append(@, k, v)]

insert_header(o, k, v) == [o EXCEPT !.headers = Headers_set(@, k, v)]
append_header(o, k, v) == [o EXCEPT !.headers = Headers_append(@, k, v)]

\* #[derive(Clone)] on ResponseOptions: status is copied, worker::Headers
\* clones into a new Headers object; the clone shares nothing with o, so a
\* later write to the clone is a write to the returned value only.
ResponseOptions_clone(o) == [status |-> o.status, headers |-> o.headers]

\* use_context::<ResponseOptions>(): a clone of the value held by the context
use_context(provided, held) ==
    IF provided THEN Some(ResponseOptions_clone(held)) ELSE None

\* the body of redirect(path) on the local value obtained from use_context
redirect_local(o, path) ==
    insert_header([o EXCEPT !.status = Some(302)], "location", path)

\* the loop "for (key, value) in res_options.headers { res_options.append_header }"
\* of both response builders: every entry of res_options is appended to
\* res_options itself; the response is not an operand of the loop.
RECURSIVE AppendAll(_, _, _)
AppendAll(o, k, vs) ==
    IF vs = <<>> THEN o
    ELSE AppendAll(append_header(o, k, Head(vs)), k, Tail(vs))

add_manipulated_headers(o) ==
    LET a == AppendAll(o, "content-type", o.headers["content-type"])
    IN AppendAll(a, "location", o.headers["location"])

(* ------------------------ html_parts_separated ------------------------- *)
\* the head embeds the page metadata registered in MetaContext so far
html_head(metaRegistered) == <<"head", IF metaRegistered THEN 1 ELSE 0>>

(* ---- state of the other operations of the crate (defined further down) ---- *)
VARIABLES
    writes,        \* log of header writes made by rendering code
    opts,          \* a ResponseOptions value operated on directly
    optsBefore,    \* opts before the last operation
    lastOp,        \* the last operation applied to opts
    paths,         \* leptos_routes: the Vec<RouteListing> given
    cf_router,     \* leptos_routes: the handlers registered per method and path
    li,            \* leptos_routes: index of the listing being registered
    todo,          \* leptos_routes: methods of that listing still to register
    discovered,    \* generate_route_list: what generate_route_list_inner found
    excluded,      \* generate_route_list: the excluded_routes argument
    routes,        \* generate_route_list: the local `routes`
    gen_pc,        \* generate_route_list: "start", "mapped" or "done"
    task_pc,           \* per request: position of its handler future
    task_res_options,  \* per request: the handler's local res_options
    task_ctx,          \* per request: the ResponseOptions held by its runtime
    task_status,       \* per request: the local `status` of the builder
    task_response,     \* per request: the worker::Response returned
    task_redirects,    \* per request: paths its rendering code redirected to
    task_seen,         \* per request: requests that mutated while it was handled
    sf_req,        \* handle_server_fns: the request
    sf_pc,         \* handle_server_fns: position of the handler
    sf_runtime,    \* handle_server_fns: "none", "live" or "disposed"
    sf_body_read,  \* handle_server_fns: req.bytes() was called
    sf_ctx,        \* handle_server_fns: ResponseOptions provided to the runtime
    sf_data,       \* handle_server_fns: what was passed to the server function
    sf_calls,      \* handle_server_fns: number of server function invocations
    sf_result,     \* handle_server_fns: what server_fn.call returned
    sf_redirected, \* handle_server_fns: path the server function redirected to
    sf_response    \* handle_server_fns: what the handler returned

optVars == <<opts, optsBefore, lastOp>>
routeVars == <<paths, cf_router, li, todo>>
genVars == <<discovered, excluded, routes, gen_pc>>
sfVars == <<sf_req, sf_pc, sf_runtime, sf_body_read, sf_ctx, sf_data, sf_calls,
           sf_result, sf_redirected, sf_response>>
taskVars == <<task_pc, task_res_options, task_ctx, task_status, task_response,
              task_redirects, task_seen>>
auxVars == <<writes, optVars, routeVars, genVars, taskVars, sfVars>>

NoOp == [op |-> "none", key |-> "", value |-> ""]
OptionsIdle ==
    /\ opts = ResponseOptions_default
    /\ optsBefore = ResponseOptions_default
    /\ lastOp = NoOp

\* worker::Router keeps its handlers per method and path pattern
RoutePaths == {"/", "/a"}
Methods == {"Get", "Post", "Put", "Delete", "Patch"}
Router_new == [k \in Methods \X RoutePaths |-> <<>>]

RoutesIdle ==
    /\ paths = <<>>
    /\ cf_router = Router_new
    /\ li = 0
    /\ todo = {}

\* Option<Vec<String>>: the entries matter only through iter().any()
NoExclusions == [some |-> FALSE, entries |-> {}]

GenIdle ==
    /\ discovered = <<>>
    /\ excluded = NoExclusions
    /\ routes = <<>>
    /\ gen_pc = "start"

Requests == 1..MaxRequests
\* the response of a handler that has not returned
NotReturned == [open |-> FALSE, status |-> 0, headers |-> Headers_new]

TasksIdle ==
    /\ task_pc = [r \in Requests |-> "idle"]
    /\ task_res_options = [r \in Requests |-> ResponseOptions_default]
    /\ task_ctx = [r \in Requests |-> ResponseOptions_default]
    /\ task_status = [r \in Requests |-> 0]
    /\ task_response = [r \in Requests |-> NotReturned]
    /\ task_redirects = [r \in Requests |-> {}]
    /\ task_seen = [r \in Requests |-> {}]

\* worker::Result<worker::Response> of handle_server_fns, before it returns
NoResult == [kind |-> "none", status |-> 0, headers |-> Headers_new,
             body |-> <<>>]

SfStart ==
    /\ sf_pc = "start"
    /\ sf_runtime = "none"
    /\ sf_body_read = FALSE
    /\ sf_ctx = None
    /\ sf_data = "none"
    /\ sf_calls = 0
    /\ sf_result = "none"
    /\ sf_redirected = None
    /\ sf_response = NoResult

SfIdle ==
    /\ sf_req = [urlOk |-> TRUE, bodyOk |-> TRUE, api_path |-> "add_todo",
                 accept |-> None, referer |-> None]
    /\ SfStart

AuxIdle ==
    /\ writes = <<>>
    /\ OptionsIdle
    /\ RoutesIdle
    /\ GenIdle
    /\ TasksIdle
    /\ SfIdle

VARIABLES
    req,           \* the worker::Request: can its URL be parsed, its body read
    request_parts, \* the RequestParts built by generate_request_parts
    mode,          \* SsrMode of the route being served
    pc,            \* position of the handler
    nfrags,        \* number of fragments the renderer will yield
    pending,       \* fragments of the renderer not yet resolved
    queue,         \* fragments resolved, not yet taken from the stream
    stalled,       \* the renderer never resolves another fragment
    res_options,   \* the handler's ResponseOptions (moved into the builder)
    ctx_provided,  \* provide_contexts has run for this request
    ctx_options,   \* the ResponseOptions held by the render context
    meta,          \* MetaContext has the page metadata registered
    first_app_chunk,
    head,
    primed,        \* iter([first_chunk, second_chunk]) not yet consumed
    first_chunk,
    second_chunk,
    status,        \* the local `status` of the builder
    html,          \* Async: the document collected by build_async_response
    response,      \* the worker::Response returned by the handler
    sent,          \* chunks handed to the transport, in order
    tailState,     \* "unpolled", "produced" or "handed"
    disposed,      \* number of runtime.dispose() calls
    cancelled,     \* the transport dropped the stream (client disconnect)
    yielded,       \* fragments taken from the underlying stream, in order
    pulls,         \* completed next() calls on the underlying stream
    pullsAtHead,   \* pulls when html_parts_separated ran (-1: not yet)
    pullsAtStatus, \* pulls when res_options.status was read (-1: not yet)
    statusReads,   \* number of reads of res_options.status
    sentAtDispose, \* chunks handed to the transport when dispose ran
    redirects      \* log of redirect() calls

reqVars == <<req, request_parts, mode, pc, nfrags, pending, queue, stalled, res_options,
          ctx_provided, ctx_options, meta, first_app_chunk, head, primed,
          first_chunk, second_chunk, status, html, response, sent,
          tailState, disposed, cancelled, yielded, pulls, pullsAtHead,
          pullsAtStatus, statusReads, sentAtDispose, redirects>>

vars == <<auxVars, reqVars>>

\* the variables an operation of one part of the model leaves alone
except_writes == <<reqVars, optVars, routeVars, genVars, taskVars, sfVars>>
except_optVars == <<reqVars, writes, routeVars, genVars, taskVars, sfVars>>
except_routeVars == <<reqVars, writes, optVars, genVars, taskVars, sfVars>>
except_genVars == <<reqVars, writes, optVars, routeVars, taskVars, sfVars>>
except_taskVars == <<reqVars, writes, optVars, routeVars, genVars, sfVars>>
except_sfVars == <<reqVars, writes, optVars, routeVars, genVars, taskVars>>

rendererVars == <<nfrags, pending, queue, stalled>>
builderVars == <<first_app_chunk, head, primed, first_chunk, second_chunk,
                 status, html>>
ghostReads == <<pullsAtHead, pullsAtStatus, statusReads>>

NoResponse == [open |-> FALSE, status |-> 0, headers |-> Headers_new]

\* generate_request_parts: the body is req.bytes().await.unwrap_or_default(),
\* the only `?` is on req.url()
NoRequestParts == [built |-> FALSE, body |-> ""]
\* Variant of generate_request_parts: a body that cannot be read fails the
\* snapshot too (`?` instead of unwrap_or_default).
generate_request_parts_strict(r) ==
    IF r.urlOk /\ r.bodyOk
    THEN [ok |-> TRUE, parts |-> [built |-> TRUE, body |-> "payload"]]
    ELSE [ok |-> FALSE, parts |-> NoRequestParts]

generate_request_parts(r) ==
    IF r.urlOk
    THEN [ok |-> TRUE,
          parts |-> [built |-> TRUE,
                     body |-> IF r.bodyOk THEN "payload" ELSE ""]]
    ELSE [ok |-> FALSE, parts |-> NoRequestParts]

\* a request arrives for a route whose underlying stream will yield one of
\* the given numbers of fragments
ReqStart(lengths) ==
    /\ req \in [urlOk : BOOLEAN, bodyOk : BOOLEAN]
    /\ request_parts = NoRequestParts
    /\ mode \in Modes
    /\ pc = "start"
    /\ nfrags \in lengths
    /\ pending = 1..nfrags
    /\ queue = <<>>
    /\ stalled = FALSE
    /\ res_options = ResponseOptions_default
    /\ ctx_provided = FALSE
    /\ ctx_options = ResponseOptions_default
    /\ meta = FALSE
    /\ first_app_chunk = NoChunk
    /\ head = NoChunk
    /\ primed = <<>>
    /\ first_chunk = NoChunk
    /\ second_chunk = NoChunk
    /\ status = 0
    /\ html = <<>>
    /\ response = NoResponse
    /\ sent = <<>>
    /\ tailState = "unpolled"
    /\ disposed = 0
    /\ cancelled = FALSE
    /\ yielded = <<>>
    /\ pulls = 0
    /\ pullsAtHead = -1
    /\ pullsAtStatus = -1
    /\ statusReads = 0
    /\ sentAtDispose = -1
    /\ redirects = <<>>

\* the streams leptos renders always yield the application shell
ReqInit == ReqStart(1..MaxFrags)

Init ==
    /\ AuxIdle
    /\ ReqInit

\* no request is being served
ReqIdle ==
    /\ ReqInit
    /\ req = [urlOk |-> TRUE, bodyOk |-> TRUE]
    /\ mode = "OutOfOrder"
    /\ nfrags = 1

(* ============================ the renderer ============================= *)
\* The fragment the renderer may resolve next.  InOrder and Async streams
\* yield in document order; the out-of-order streams yield the shell
\* (fragment 1) first and the suspended fragments in the order they resolve.
Resolvable(f) ==
    /\ f \in pending
    /\ IF mode \in {"InOrder", "Async"}
       THEN \A g \in pending : f <= g
       ELSE (1 \in pending) => f = 1

RuntimeLive == pc \notin {"start", "error"} /\ disposed = 0 /\ ~cancelled

\* a suspended fragment resolves and becomes available from the stream
Resolve ==
    /\ RuntimeLive
    /\ ~stalled
    /\ \E f \in pending :
        /\ Resolvable(f)
        /\ pending' = pending \ {f}
        /\ queue' = Append(queue, f)
    /\ UNCHANGED <<auxVars, req, request_parts, mode, pc, nfrags, stalled, res_options, ctx_provided,
                   ctx_options, meta, builderVars, response, sent, tailState,
                   disposed, cancelled, yielded, pulls, ghostReads,
                   sentAtDispose, redirects>>

\* the renderer hangs on a fragment that never resolves
Stall ==
    /\ RuntimeLive
    /\ ~stalled
    /\ pending # {}
    /\ stalled' = TRUE
    /\ UNCHANGED <<auxVars, req, request_parts, mode, pc, nfrags, pending, queue, res_options,
                   ctx_provided, ctx_options, meta, builderVars, response,
                   sent, tailState, disposed, cancelled, yielded, pulls,
                   ghostReads, sentAtDispose, redirects>>

\* Variant of RedirectCall: ResponseOptions is a handle shared by the
\* context, the handler and the response, so the write lands in all of them,
\* also once the response is opened.
RedirectCall_live(path) ==
    LET o == redirect_local(res_options, path)
    IN  /\ res_options' = o
        /\ ctx_options' = o
        /\ response' = IF response.open
                       THEN [response EXCEPT
                               !.status = 302,
                               !.headers = Headers_set(@, "location", path)]
                       ELSE response
        /\ redirects' = Append(redirects,
                          [path |-> path,
                           inContext |-> ctx_provided,
                           produced |-> nfrags - Cardinality(pending),
                           local |-> o,
                           afterRead |-> statusReads > 0])
        /\ UNCHANGED <<auxVars, req, request_parts, mode, pc, rendererVars, ctx_provided, meta,
                       builderVars, sent, tailState, disposed, cancelled,
                       yielded, pulls, ghostReads, sentAtDispose>>

\* redirect(path), called by rendering code (a component, a resource, the
\* server redirect hook installed by provide_contexts) or outside any render
\* context.  The local response_options is dropped at the end of the call.
RedirectCall(path) ==
    LET got == use_context(ctx_provided, ctx_options)
        response_options ==
            IF got = None THEN ctx_options ELSE redirect_local(got[1], path)
    IN  /\ redirects' = Append(redirects,
                          [path |-> path,
                           inContext |-> got # None,
                           produced |-> nfrags - Cardinality(pending),
                           local |-> response_options,
                           afterRead |-> statusReads > 0])
        /\ UNCHANGED <<auxVars, req, request_parts, mode, pc, rendererVars, res_options, ctx_provided,
                       ctx_options, meta, builderVars, response, sent,
                       tailState, disposed, cancelled, yielded, pulls,
                       ghostReads, sentAtDispose>>

redirect ==
    /\ Len(redirects) < MaxRedirects
    /\ disposed = 0
    /\ ~cancelled
    /\ pc \notin {"done", "error"}
    /\ \E path \in Paths : RedirectCall(path)

(* ================== the handlers of the streaming modes ================ *)
\* handler closure up to the call of the renderer inside stream_app /
\* stream_app_in_order / render_app_async_helper: res_options is created,
\* its clone is moved into the app closure, and the renderer runs the app,
\* which calls provide_contexts with that clone.
provide_contexts(default_res_options) ==
    /\ ctx_provided' = TRUE
    /\ ctx_options' = default_res_options

StartRender ==
    /\ pc = "start"
    /\ generate_request_parts(req).ok
    /\ request_parts' = generate_request_parts(req).parts
    /\ pc' = "created"
    /\ provide_contexts(ResponseOptions_clone(res_options))
    /\ UNCHANGED <<auxVars, req, mode, rendererVars, res_options, meta,
                   builderVars, response, sent, tailState, disposed,
                   cancelled, yielded, pulls, ghostReads, sentAtDispose,
                   redirects>>

\* the `?` on generate_request_parts (lines 302, 347, 475, 514): the handler
\* returns the error before the app closure exists and before stream_app /
\* stream_app_in_order / render_app_async_helper is called
RequestPartsError ==
    /\ pc = "start"
    /\ ~generate_request_parts(req).ok
    /\ pc' = "error"
    /\ UNCHANGED <<auxVars, req, request_parts, mode, rendererVars,
                   res_options, ctx_provided, ctx_options, meta, builderVars,
                   response, sent, tailState, disposed, cancelled, yielded,
                   pulls, ghostReads, sentAtDispose, redirects>>

\* Variant of PrimeFirst: the first element is taken without
\* unwrap_or_default, so an exhausted stream leaves nothing to put back.
PrimeFirst_noDefault ==
    /\ mode \in StreamingModes
    /\ pc = "created"
    /\ queue # <<>> \/ pending = {}
    /\ IF queue # <<>>
       THEN /\ first_app_chunk' = Frag(Head(queue))
            /\ queue' = Tail(queue)
            /\ yielded' = Append(yielded, Head(queue))
       ELSE /\ first_app_chunk' = NoChunk
            /\ UNCHANGED <<queue, yielded>>
    /\ pulls' = pulls + 1
    /\ meta' = TRUE
    /\ pc' = "primed"
    /\ UNCHANGED <<auxVars, req, request_parts, mode, nfrags, pending, stalled, res_options, ctx_provided,
                   ctx_options, head, primed, first_chunk, second_chunk,
                   status, html, response, sent, tailState, disposed,
                   cancelled, ghostReads, sentAtDispose, redirects>>

\* build_stream_response, line 560: stream.next().await.unwrap_or_default()
PrimeFirst ==
    /\ mode \in StreamingModes
    /\ pc = "created"
    /\ queue # <<>> \/ pending = {}
    /\ IF queue # <<>>
       THEN /\ first_app_chunk' = Frag(Head(queue))
            /\ queue' = Tail(queue)
            /\ yielded' = Append(yielded, Head(queue))
       ELSE /\ first_app_chunk' = EmptyChunk
            /\ UNCHANGED <<queue, yielded>>
    /\ pulls' = pulls + 1
    /\ meta' = TRUE
    /\ pc' = "primed"
    /\ UNCHANGED <<auxVars, req, request_parts, mode, nfrags, pending, stalled, res_options, ctx_provided,
                   ctx_options, head, primed, first_chunk, second_chunk,
                   status, html, response, sent, tailState, disposed,
                   cancelled, ghostReads, sentAtDispose, redirects>>

\* Variant of ComputeHead: the head is computed before the first fragment
\* has been awaited.
ComputeHead_early ==
    /\ mode \in StreamingModes
    /\ pc = "created"
    /\ head = NoChunk
    /\ head' = html_head(meta)
    /\ pullsAtHead' = pulls
    /\ UNCHANGED <<auxVars, req, request_parts, mode, pc, rendererVars, res_options, ctx_provided,
                   ctx_options, meta, first_app_chunk, primed, first_chunk,
                   second_chunk, status, html, response, sent, tailState,
                   disposed, cancelled, yielded, pulls, pullsAtStatus,
                   statusReads, sentAtDispose, redirects>>

\* line 562: html_parts_separated(options, use_context::<MetaContext>())
ComputeHead ==
    /\ mode \in StreamingModes
    /\ pc = "primed"
    /\ head' = html_head(meta)
    /\ pullsAtHead' = pulls
    /\ pc' = "headed"
    /\ UNCHANGED <<auxVars, req, request_parts, mode, rendererVars, res_options, ctx_provided,
                   ctx_options, meta, first_app_chunk, primed, first_chunk,
                   second_chunk, status, html, response, sent, tailState,
                   disposed, cancelled, yielded, pulls, pullsAtStatus,
                   statusReads, sentAtDispose, redirects>>

\* line 575: the first element of once(head).chain(once(first_app_chunk)
\* .chain(stream)).chain(once(dispose; tail))
PollFirst ==
    /\ mode \in StreamingModes
    /\ pc = "headed"
    /\ first_chunk' = head
    /\ pc' = "first"
    /\ UNCHANGED <<auxVars, req, request_parts, mode, rendererVars, res_options, ctx_provided,
                   ctx_options, meta, first_app_chunk, head, primed,
                   second_chunk, status, html, response, sent, tailState,
                   disposed, cancelled, yielded, pulls, ghostReads,
                   sentAtDispose, redirects>>

\* Variant of PollSecond: the chain does not put first_app_chunk back, so the
\* second element is taken from the underlying stream.
PollSecond_fromStream ==
    /\ mode \in StreamingModes
    /\ pc = "first"
    /\ queue # <<>>
    /\ second_chunk' = Frag(Head(queue))
    /\ yielded' = Append(yielded, Head(queue))
    /\ queue' = Tail(queue)
    /\ pulls' = pulls + 1
    /\ pc' = "second"
    /\ UNCHANGED <<auxVars, req, request_parts, mode, nfrags, pending, stalled, res_options, ctx_provided,
                   ctx_options, meta, first_app_chunk, head, primed,
                   first_chunk, status, html, response, sent, tailState,
                   disposed, cancelled, ghostReads, sentAtDispose, redirects>>

\* Variant of PollSecond: the chain is once(head).chain(stream).chain(tail),
\* without first_app_chunk put back; when the underlying stream has nothing
\* more, the second element is the tail and its future disposes the runtime.
PollSecond_intoTail ==
    /\ mode \in StreamingModes
    /\ pc = "first"
    /\ queue # <<>> \/ pending = {}
    /\ IF queue # <<>>
       THEN /\ second_chunk' = Frag(Head(queue))
            /\ yielded' = Append(yielded, Head(queue))
            /\ queue' = Tail(queue)
            /\ UNCHANGED <<disposed, sentAtDispose, tailState>>
       ELSE /\ second_chunk' = TailChunk
            /\ disposed' = disposed + 1
            /\ sentAtDispose' = Len(sent)
            /\ tailState' = "handed"
            /\ UNCHANGED <<queue, yielded>>
    /\ pulls' = pulls + 1
    /\ pc' = "second"
    /\ UNCHANGED <<auxVars, req, request_parts, mode, nfrags, pending, stalled, res_options, ctx_provided,
                   ctx_options, meta, first_app_chunk, head, primed,
                   first_chunk, status, html, response, sent,
                   cancelled, ghostReads, redirects>>

\* line 576: the second element of the chained stream
PollSecond ==
    /\ mode \in StreamingModes
    /\ pc = "first"
    /\ second_chunk' = first_app_chunk
    /\ pc' = "second"
    /\ UNCHANGED <<auxVars, req, request_parts, mode, rendererVars, res_options, ctx_provided,
                   ctx_options, meta, first_app_chunk, head, primed,
                   first_chunk, status, html, response, sent, tailState,
                   disposed, cancelled, yielded, pulls, ghostReads,
                   sentAtDispose, redirects>>

\* line 578 (streaming) and line 442 (Async):
\* let status = res_options.status.unwrap_or(200)
ReadStatus ==
    /\ \/ mode \in StreamingModes /\ pc = "second"
       \/ mode = "Async" /\ pc = "collected"
    /\ status' = unwrap_or(res_options.status, 200)
    /\ statusReads' = statusReads + 1
    /\ pullsAtStatus' = pulls
    /\ pc' = "statusread"
    /\ UNCHANGED <<auxVars, req, request_parts, mode, rendererVars, res_options, ctx_provided,
                   ctx_options, meta, first_app_chunk, head, primed,
                   first_chunk, second_chunk, html, response, sent,
                   tailState, disposed, cancelled, yielded, pulls,
                   pullsAtHead, sentAtDispose, redirects>>

\* Response::from_stream / from_html, headers_mut().set("Content-Type",
\* "text/html"), the header loop, with_status(status)
with_status(r, s) == [r EXCEPT !.status = s]

\* Variant of NewHtmlResponse: the Content-Type of the response is left to
\* what the response constructor chose.
NewHtmlResponse_untyped ==
    [open |-> TRUE, status |-> 200, headers |-> Headers_new]

NewHtmlResponse ==
    [open |-> TRUE, status |-> 200,
     headers |-> Headers_set(Headers_new, "content-type", "text/html")]

\* Variant of OpenResponse: the two primed elements are put back in the
\* wrong order.
OpenResponse_swapped ==
    /\ mode \in StreamingModes
    /\ pc = "statusread"
    /\ primed' = <<second_chunk, first_chunk>>
    /\ res_options' = add_manipulated_headers(res_options)
    /\ response' = with_status(NewHtmlResponse, status)
    /\ pc' = "opened"
    /\ UNCHANGED <<auxVars, req, request_parts, mode, rendererVars, ctx_provided, ctx_options, meta,
                   first_app_chunk, head, first_chunk, second_chunk, status,
                   html, sent, tailState, disposed, cancelled, yielded,
                   pulls, ghostReads, sentAtDispose, redirects>>

\* lines 580-590
OpenResponse ==
    /\ mode \in StreamingModes
    /\ pc = "statusread"
    /\ primed' = <<first_chunk, second_chunk>>
    /\ res_options' = add_manipulated_headers(res_options)
    /\ response' = with_status(NewHtmlResponse, status)
    /\ pc' = "opened"
    /\ UNCHANGED <<auxVars, req, request_parts, mode, rendererVars, ctx_provided, ctx_options, meta,
                   first_app_chunk, head, first_chunk, second_chunk, status,
                   html, sent, tailState, disposed, cancelled, yielded,
                   pulls, ghostReads, sentAtDispose, redirects>>

\* Variant of ResponseError: the failure is reported although the response
\* has been returned and chunks may have been handed over.
ResponseError_late ==
    /\ pc = "opened"
    /\ pc' = "error"
    /\ UNCHANGED <<auxVars, req, request_parts, mode, rendererVars,
                   res_options, ctx_provided, ctx_options, meta, builderVars,
                   response, sent, tailState, disposed, cancelled, yielded,
                   pulls, ghostReads, sentAtDispose, redirects>>

\* a `?` of the response construction fails (Response::from_stream 582,
\* headers_mut().set 583, append_header 587; from_html 444, set 446,
\* append_header 450): the builder returns the error, the streams it holds
\* are dropped and no response exists
ResponseError ==
    /\ pc = "statusread"
    /\ pc' = "error"
    /\ UNCHANGED <<auxVars, req, request_parts, mode, rendererVars,
                   res_options, ctx_provided, ctx_options, meta, builderVars,
                   response, sent, tailState, disposed, cancelled, yielded,
                   pulls, ghostReads, sentAtDispose, redirects>>

(* ============================ the transport ============================ *)
Streaming == mode \in StreamingModes /\ pc = "opened" /\ ~cancelled

\* the transport takes one of the two primed elements of complete_stream
SendPrimed ==
    /\ Streaming
    /\ primed # <<>>
    /\ sent' = Append(sent, Head(primed))
    /\ primed' = Tail(primed)
    /\ UNCHANGED <<auxVars, req, request_parts, mode, pc, rendererVars, res_options, ctx_provided,
                   ctx_options, meta, first_app_chunk, head, first_chunk,
                   second_chunk, status, html, response, tailState, disposed,
                   cancelled, yielded, pulls, ghostReads, sentAtDispose,
                   redirects>>

\* Variant of SendFragment: the assembler takes fragments from the stream as
\* soon as they are available and keeps them until the transport asks.
SendFragment_buffering ==
    /\ Streaming
    /\ queue # <<>>
    /\ primed' = Append(primed, Frag(Head(queue)))
    /\ yielded' = Append(yielded, Head(queue))
    /\ queue' = Tail(queue)
    /\ pulls' = pulls + 1
    /\ UNCHANGED <<auxVars, req, request_parts, mode, pc, nfrags, pending,
                   stalled, res_options, ctx_provided, ctx_options, meta,
                   first_app_chunk, head, first_chunk, second_chunk, status,
                   html, response, sent, tailState, disposed, cancelled,
                   ghostReads, sentAtDispose, redirects>>

\* the transport asks for the next chunk and the underlying stream has one
SendFragment ==
    /\ Streaming
    /\ primed = <<>>
    /\ queue # <<>>
    /\ sent' = Append(sent, Frag(Head(queue)))
    /\ yielded' = Append(yielded, Head(queue))
    /\ queue' = Tail(queue)
    /\ pulls' = pulls + 1
    /\ UNCHANGED <<auxVars, req, request_parts, mode, pc, nfrags, pending, stalled, res_options,
                   ctx_provided, ctx_options, meta, builderVars, response,
                   tailState, disposed, cancelled, ghostReads, sentAtDispose,
                   redirects>>

\* Variant of ProduceTail: the tail step runs although the underlying stream
\* has not ended.
ProduceTail_early ==
    /\ Streaming
    /\ primed = <<>>
    /\ tailState = "unpolled"
    /\ disposed' = disposed + 1
    /\ sentAtDispose' = Len(sent)
    /\ pulls' = pulls + 1
    /\ tailState' = "produced"
    /\ UNCHANGED <<auxVars, req, request_parts, mode, pc, rendererVars, res_options, ctx_provided,
                   ctx_options, meta, builderVars, response, sent, cancelled,
                   yielded, ghostReads, redirects>>

\* lines 567-570: the underlying stream is exhausted, the last element of the
\* chain runs: runtime.dispose(), then the tail is produced
ProduceTail ==
    /\ Streaming
    /\ primed = <<>>
    /\ queue = <<>>
    /\ pending = {}
    /\ tailState = "unpolled"
    /\ disposed' = disposed + 1
    /\ sentAtDispose' = Len(sent)
    /\ pulls' = pulls + 1
    /\ tailState' = "produced"
    /\ UNCHANGED <<auxVars, req, request_parts, mode, pc, rendererVars, res_options, ctx_provided,
                   ctx_options, meta, builderVars, response, sent, cancelled,
                   yielded, ghostReads, redirects>>

\* the produced tail is handed to the transport
HandTail ==
    /\ Streaming
    /\ tailState = "produced"
    /\ sent' = Append(sent, TailChunk)
    /\ tailState' = "handed"
    /\ UNCHANGED <<auxVars, req, request_parts, mode, pc, rendererVars, res_options, ctx_provided,
                   ctx_options, meta, builderVars, response, disposed,
                   cancelled, yielded, pulls, ghostReads, sentAtDispose,
                   redirects>>

\* the chained stream ends after the tail
CloseStream ==
    /\ Streaming
    /\ tailState = "handed"
    /\ pc' = "done"
    /\ UNCHANGED <<auxVars, req, request_parts, mode, rendererVars, res_options, ctx_provided,
                   ctx_options, meta, builderVars, response, sent, tailState,
                   disposed, cancelled, yielded, pulls, ghostReads,
                   sentAtDispose, redirects>>

\* the client disconnects: the transport cancels the ReadableStream, which
\* drops complete_stream together with the futures it has not polled
ClientDisconnect ==
    /\ Streaming
    /\ tailState = "unpolled"
    /\ cancelled' = TRUE
    /\ UNCHANGED <<auxVars, req, request_parts, mode, pc, rendererVars, res_options, ctx_provided,
                   ctx_options, meta, builderVars, response, sent, tailState,
                   disposed, yielded, pulls, ghostReads, sentAtDispose,
                   redirects>>

(* ============================ the Async mode =========================== *)
\* build_async_response: while let Some(chunk) = stream.next().await
AsyncCollect ==
    /\ mode = "Async"
    /\ pc = "created"
    /\ queue # <<>>
    /\ html' = Append(html, Frag(Head(queue)))
    /\ yielded' = Append(yielded, Head(queue))
    /\ queue' = Tail(queue)
    /\ pulls' = pulls + 1
    /\ meta' = TRUE
    /\ UNCHANGED <<auxVars, req, request_parts, mode, pc, nfrags, pending, stalled, res_options,
                   ctx_provided, ctx_options, first_app_chunk, head, primed,
                   first_chunk, second_chunk, status, response, sent,
                   tailState, disposed, cancelled, ghostReads, sentAtDispose,
                   redirects>>

\* Variant of AsyncFinish: the loop ends as soon as no fragment is available,
\* although fragments are still pending.
AsyncFinish_early ==
    /\ mode = "Async"
    /\ pc = "created"
    /\ queue = <<>>
    /\ pulls' = pulls + 1
    /\ head' = html_head(meta)
    /\ pullsAtHead' = pulls + 1
    /\ disposed' = disposed + 1
    /\ sentAtDispose' = Len(sent)
    /\ html' = <<html_head(meta)>> \o html \o <<TailChunk>>
    /\ pc' = "collected"
    /\ UNCHANGED <<auxVars, req, request_parts, mode, rendererVars, res_options, ctx_provided,
                   ctx_options, meta, first_app_chunk, primed, first_chunk,
                   second_chunk, status, response, sent, tailState,
                   cancelled, yielded, pullsAtStatus, statusReads,
                   redirects>>

\* build_async_response after the loop: html_parts_separated, dispose,
\* format!("{head}...{buf}{tail}")
AsyncFinish ==
    /\ mode = "Async"
    /\ pc = "created"
    /\ queue = <<>>
    /\ pending = {}
    /\ pulls' = pulls + 1
    /\ head' = html_head(meta)
    /\ pullsAtHead' = pulls + 1
    /\ disposed' = disposed + 1
    /\ sentAtDispose' = Len(sent)
    /\ html' = <<html_head(meta)>> \o html \o <<TailChunk>>
    /\ pc' = "collected"
    /\ UNCHANGED <<auxVars, req, request_parts, mode, rendererVars, res_options, ctx_provided,
                   ctx_options, meta, first_app_chunk, primed, first_chunk,
                   second_chunk, status, response, sent, tailState,
                   cancelled, yielded, pullsAtStatus, statusReads,
                   redirects>>

\* Variant of AsyncRespond: the document sent is the collected buffer
\* alone, without the head and the tail around it.
AsyncRespond_bufferOnly ==
    /\ mode = "Async"
    /\ pc = "statusread"
    /\ res_options' = add_manipulated_headers(res_options)
    /\ response' = with_status(NewHtmlResponse, status)
    /\ sent' = SubSeq(html, 2, Len(html) - 1)
    /\ pc' = "done"
    /\ UNCHANGED <<auxVars, req, request_parts, mode, rendererVars, ctx_provided, ctx_options, meta,
                   builderVars, tailState, disposed, cancelled, yielded,
                   pulls, ghostReads, sentAtDispose, redirects>>

\* render_app_async_helper, lines 444-453
AsyncRespond ==
    /\ mode = "Async"
    /\ pc = "statusread"
    /\ res_options' = add_manipulated_headers(res_options)
    /\ response' = with_status(NewHtmlResponse, status)
    /\ sent' = html
    /\ pc' = "done"
    /\ UNCHANGED <<auxVars, req, request_parts, mode, rendererVars, ctx_provided, ctx_options, meta,
                   builderVars, tailState, disposed, cancelled, yielded,
                   pulls, ghostReads, sentAtDispose, redirects>>

Next ==
    \/ Resolve
    \/ Stall
    \/ redirect
    \/ StartRender
    \/ RequestPartsError
    \/ ResponseError
    \/ PrimeFirst
    \/ ComputeHead
    \/ PollFirst
    \/ PollSecond
    \/ ReadStatus
    \/ OpenResponse
    \/ SendPrimed
    \/ SendFragment
    \/ ProduceTail
    \/ HandTail
    \/ CloseStream
    \/ ClientDisconnect
    \/ AsyncCollect
    \/ AsyncFinish
    \/ AsyncRespond

Spec == Init /\ [][Next]_vars

\* build_stream_response and build_async_response take any
\* Stream<Item = String>: the same handlers over underlying streams of every
\* length, the empty one included
InitAnyStream ==
    /\ AuxIdle
    /\ ReqStart(0..MaxFrags)

SpecAnyStream == InitAnyStream /\ [][Next]_vars

(* ================= header writes made by rendering code ================ *)
HeaderValues == {"application/json", "/login"}

\* rendering code writes a header the way redirect does: it takes the
\* ResponseOptions from the context (a clone), calls insert_header or
\* append_header on it and drops it
write_header ==
    /\ Len(writes) < MaxWrites
    /\ RuntimeLive
    /\ \E op \in {"insert", "append"}, k \in HeaderKeys, v \in HeaderValues :
         LET got == use_context(ctx_provided, ctx_options)
             local == IF op = "insert" THEN insert_header(got[1], k, v)
                      ELSE append_header(got[1], k, v)
         IN  /\ got # None
             /\ writes' = Append(writes,
                            [op |-> op, key |-> k, value |-> v,
                             local |-> local,
                             afterRead |-> statusReads > 0])
    /\ UNCHANGED except_writes

\* the request with rendering code that writes headers
NextHeaders ==
    \/ write_header
    \/ Resolve
    \/ StartRender
    \/ RequestPartsError
    \/ PrimeFirst
    \/ ComputeHead
    \/ PollFirst
    \/ PollSecond
    \/ ReadStatus
    \/ OpenResponse
    \/ ResponseError
    \/ SendPrimed
    \/ SendFragment
    \/ ProduceTail
    \/ HandTail
    \/ CloseStream
    \/ ClientDisconnect
    \/ AsyncCollect
    \/ AsyncFinish
    \/ AsyncRespond

SpecHeaders == Init /\ [][NextHeaders]_vars

(* ============== ResponseOptions::insert_header / append_header ========= *)
OptionStatuses == {None, Some(200), Some(302)}

\* impl ResponseOptions, lines 625-627
insert_header_call ==
    \E k \in HeaderKeys, v \in HeaderValues :
        /\ optsBefore' = opts
        /\ opts' = insert_header(opts, k, v)
        /\ lastOp' = [op |-> "insert", key |-> k, value |-> v]
        /\ UNCHANGED except_optVars

\* impl ResponseOptions, lines 629-631
append_header_call ==
    \E k \in HeaderKeys, v \in HeaderValues :
        /\ Len(opts.headers[k]) < MaxValues
        /\ optsBefore' = opts
        /\ opts' = append_header(opts, k, v)
        /\ lastOp' = [op |-> "append", key |-> k, value |-> v]
        /\ UNCHANGED except_optVars

InitOptions ==
    /\ ReqIdle
    /\ writes = <<>>
    /\ SfIdle
    /\ TasksIdle
    /\ RoutesIdle
    /\ GenIdle
    /\ opts \in [status : OptionStatuses, headers : {Headers_new}]
    /\ optsBefore = opts
    /\ lastOp = NoOp

NextOptions ==
    \/ insert_header_call
    \/ append_header_call

SpecOptions == InitOptions /\ [][NextOptions]_vars

(* ===================== LeptosRoutes::leptos_routes ===================== *)
\* the method sets of the listings tried: none, one, two, three
MethodSets == {{}, {"Get"}, {"Get", "Post"}, {"Put", "Delete", "Patch"}}
RouteListings == [path : RoutePaths, mode : Modes, methods : MethodSets]

\* the Vec<RouteListing> a route list can be: no two listings with one path
PathSeqs(n) ==
    {ps \in [1..n -> RoutePaths] : \A i, j \in 1..n : ps[i] = ps[j] => i = j}

RouteLists ==
    UNION {UNION {{[i \in 1..n |->
                     [path |-> ps[i], mode |-> ms[i], methods |-> mt[i]]]
                   : ms \in [1..n -> Modes], mt \in [1..n -> MethodSets]}
                  : ps \in PathSeqs(n)}
           : n \in 0..MaxListings}

\* the handler each render_app_* function builds: the builder it ends in and
\* the replace_blocks argument passed to stream_app
StreamHandler == [builder |-> "stream_app", replace_blocks |-> FALSE]
StreamReplaceHandler == [builder |-> "stream_app", replace_blocks |-> TRUE]
InOrderHandler == [builder |-> "stream_app_in_order", replace_blocks |-> FALSE]
AsyncHandler == [builder |-> "render_app_async_helper", replace_blocks |-> FALSE]

\* Variant of handler_for: the InOrder and Async arms are exchanged.
handler_for_swapped(m) ==
    CASE m = "OutOfOrder" -> StreamHandler
      [] m = "PartiallyBlocked" -> StreamReplaceHandler
      [] m = "Async" -> InOrderHandler
      [] m = "InOrder" -> AsyncHandler

\* the match on listing.mode(), lines 645-658
handler_for(m) ==
    CASE m = "OutOfOrder" -> StreamHandler
      [] m = "PartiallyBlocked" -> StreamReplaceHandler
      [] m = "Async" -> AsyncHandler
      [] m = "InOrder" -> InOrderHandler

\* the match on method of each render_app_* function: cf_router.get_async,
\* post_async, ... register the handler under the same method and path
register(router, method, path, handler) ==
    [router EXCEPT ![<<method, path>>] = Append(@, handler)]

\* one iteration of "for method in listing.methods()"
register_method ==
    /\ li \in 1..Len(paths)
    /\ \E method \in todo :
         /\ cf_router' = register(cf_router, method, paths[li].path,
                                   handler_for(paths[li].mode))
         /\ todo' = todo \ {method}
    /\ UNCHANGED <<paths, li>>
    /\ UNCHANGED except_routeVars

\* "for listing in paths.iter()": the next listing, or the end of the loop
next_listing ==
    /\ li \in 0..Len(paths)
    /\ todo = {}
    /\ li' = li + 1
    /\ todo' = IF li + 1 <= Len(paths) THEN paths[li + 1].methods ELSE {}
    /\ UNCHANGED <<paths, cf_router>>
    /\ UNCHANGED except_routeVars

InitRoutes ==
    /\ ReqIdle
    /\ writes = <<>>
    /\ SfIdle
    /\ TasksIdle
    /\ OptionsIdle
    /\ GenIdle
    /\ paths \in RouteLists
    /\ cf_router = Router_new
    /\ li = 0
    /\ todo = {}

NextRoutes ==
    \/ register_method
    \/ next_listing

SpecRoutes == InitRoutes /\ [][NextRoutes]_vars

(* ================ generate_route_list_with_exclusions ================== *)
DiscoveredPaths == {"", "/", "/a"}
\* RouteListing::new(path, leptos_path, mode, methods, static_mode)
RouteListing_new(path, leptos_path, m, methods) ==
    [path |-> path, leptos_path |-> leptos_path, mode |-> m,
     methods |-> methods]

\* what generate_route_list_inner can return
DiscoveredListings ==
    {RouteListing_new(p, p, m, ms) :
        p \in DiscoveredPaths, m \in {"OutOfOrder", "Async"},
        ms \in {{"Get"}, {"Get", "Post"}}}

DiscoveredLists ==
    UNION {[1..n -> DiscoveredListings] : n \in 0..MaxRoutes}

Exclusions ==
    {NoExclusions} \cup
    {[some |-> TRUE, entries |-> e] : e \in SUBSET DiscoveredPaths}

\* Variant of normalize_listing: the "/" listing is built like the fallback
\* listing of line 410, with the default mode and GET.
normalize_listing_default(listing) ==
    IF listing.path = ""
    THEN RouteListing_new("/", "", "OutOfOrder", {"Get"})
    ELSE listing

\* the closure of the map, lines 393-406
normalize_listing(listing) ==
    IF listing.path = ""
    THEN RouteListing_new("/", listing.path, listing.mode, listing.methods)
    ELSE listing

\* routes.retain(|p| !excluded_routes.iter().any(|e| e == p.path()))
RECURSIVE retain_not_excluded(_, _)
retain_not_excluded(rs, entries) ==
    IF rs = <<>> THEN <<>>
    ELSE IF Head(rs).path \in entries
         THEN retain_not_excluded(Tail(rs), entries)
         ELSE <<Head(rs)>> \o retain_not_excluded(Tail(rs), entries)

\* lines 388-407: the discovered routes, each mapped by the closure
map_routes ==
    /\ gen_pc = "start"
    /\ routes' = [i \in 1..Len(discovered) |-> normalize_listing(discovered[i])]
    /\ gen_pc' = "mapped"
    /\ UNCHANGED <<discovered, excluded>>
    /\ UNCHANGED except_genVars

\* lines 409-423: the fallback listing when nothing was discovered,
\* otherwise the routes without the excluded ones
return_routes ==
    /\ gen_pc = "mapped"
    /\ routes' =
         IF routes = <<>>
         THEN <<RouteListing_new("/", "", "OutOfOrder", {"Get"})>>
         ELSE IF excluded.some
              THEN retain_not_excluded(routes, excluded.entries)
              ELSE routes
    /\ gen_pc' = "done"
    /\ UNCHANGED <<discovered, excluded>>
    /\ UNCHANGED except_genVars

\* generate_route_list is generate_route_list_with_exclusions(app_fn, None)
InitGen ==
    /\ ReqIdle
    /\ writes = <<>>
    /\ SfIdle
    /\ TasksIdle
    /\ OptionsIdle
    /\ RoutesIdle
    /\ discovered \in DiscoveredLists
    /\ excluded \in Exclusions
    /\ routes = <<>>
    /\ gen_pc = "start"

NextGen ==
    \/ map_routes
    \/ return_routes

SpecGen == InitGen /\ [][NextGen]_vars

(* ============== several requests handled by one worker ================ *)
\* The handler futures of the requests interleave at their await points.
\* Each is the handler of lines 293-311 followed by build_stream_response,
\* reduced to what touches a ResponseOptions.

\* line 297: let res_options = ResponseOptions::default()
handler_entry(r) ==
    /\ task_pc[r] = "idle"
    /\ task_res_options' = [task_res_options EXCEPT ![r] = ResponseOptions_default]
    /\ task_pc' = [task_pc EXCEPT ![r] = "entered"]
    /\ UNCHANGED <<task_ctx, task_status, task_response, task_redirects,
                   task_seen>>
    /\ UNCHANGED except_taskVars

\* lines 300-310 and 612-616: the clone of res_options is moved into the app
\* closure and provided to the runtime created for this request
start_render(r) ==
    /\ task_pc[r] = "entered"
    /\ task_ctx' = [task_ctx EXCEPT ![r] = ResponseOptions_clone(task_res_options[r])]
    /\ task_pc' = [task_pc EXCEPT ![r] = "rendering"]
    /\ UNCHANGED <<task_res_options, task_status, task_response,
                   task_redirects, task_seen>>
    /\ UNCHANGED except_taskVars

RuntimeOf(q) == task_pc[q] \in {"rendering", "statusread", "responded"}
InHandler(q) == task_pc[q] \in {"entered", "rendering", "statusread"}

\* the ghost part of a redirect made by the rendering code of r
NoteRedirect(r, path) ==
    /\ task_redirects' = [task_redirects EXCEPT ![r] = @ \cup {path}]
    /\ task_seen' = [q \in Requests |->
                       IF q # r /\ InHandler(q)
                       THEN task_seen[q] \cup {r} ELSE task_seen[q]]

\* Variant of redirect_in: ResponseOptions is a handle shared between the
\* handler and the context, and the write lands in the value of runtime q.
redirect_in_shared(r, q, path) ==
    /\ RuntimeOf(r)
    /\ RuntimeOf(q)
    /\ task_res_options' = [task_res_options EXCEPT ![q] = redirect_local(@, path)]
    /\ task_ctx' = [task_ctx EXCEPT ![q] = redirect_local(@, path)]
    /\ NoteRedirect(r, path)
    /\ UNCHANGED <<task_pc, task_status, task_response>>
    /\ UNCHANGED except_taskVars

\* redirect(path) called by rendering code of request r (lines 75-81).
\* use_context resolves against the runtime that is current at that moment;
\* with interleaved requests that is the runtime of some request q that has
\* one.  Whatever q is, the value obtained is a clone, and the writes of
\* lines 76-79 go to that clone, which is dropped at line 81.
redirect_in(r, q, path) ==
    /\ RuntimeOf(r)
    /\ RuntimeOf(q)
    /\ use_context(TRUE, task_ctx[q]) # None
    /\ NoteRedirect(r, path)
    /\ UNCHANGED <<task_pc, task_res_options, task_ctx, task_status,
                   task_response>>
    /\ UNCHANGED except_taskVars

\* line 578: let status = res_options.status.unwrap_or(200)
read_status(r) ==
    /\ task_pc[r] = "rendering"
    /\ task_status' = [task_status EXCEPT ![r] = unwrap_or(task_res_options[r].status, 200)]
    /\ task_pc' = [task_pc EXCEPT ![r] = "statusread"]
    /\ UNCHANGED <<task_res_options, task_ctx, task_response,
                   task_redirects, task_seen>>
    /\ UNCHANGED except_taskVars

\* lines 580-590: the response is built, typed, the header loop runs on
\* res_options, and the response is returned with the status read
respond(r) ==
    /\ task_pc[r] = "statusread"
    /\ task_res_options' = [task_res_options EXCEPT ![r] = add_manipulated_headers(@)]
    /\ task_response' = [task_response EXCEPT ![r] = with_status(NewHtmlResponse, task_status[r])]
    /\ task_pc' = [task_pc EXCEPT ![r] = "responded"]
    /\ UNCHANGED <<task_ctx, task_status, task_redirects, task_seen>>
    /\ UNCHANGED except_taskVars

InitTasks ==
    /\ ReqIdle
    /\ writes = <<>>
    /\ SfIdle
    /\ OptionsIdle
    /\ RoutesIdle
    /\ GenIdle
    /\ TasksIdle

NextTasks ==
    \E r \in Requests :
        \/ handler_entry(r)
        \/ start_render(r)
        \/ \E q \in Requests, path \in Paths : redirect_in(r, q, path)
        \/ read_status(r)
        \/ respond(r)

SpecTasks == InitTasks /\ [][NextTasks]_vars

(* ========================= handle_server_fns =========================== *)
\* the registry consulted by server_fn_by_path: path -> encoding
ServerFns == [add_todo |-> "Url", get_todo |-> "GetJSON"]
ApiPaths == {"add_todo", "get_todo", "missing", ""}
AcceptValues == {None, Some("application/json"), Some("text/html")}
RefererValues == {None, Some("/home")}
Payloads == {"Binary", "Url", "Json"}

server_fn_by_path(api_path) ==
    IF api_path \in DOMAIN ServerFns THEN Some(ServerFns[api_path]) ELSE None

\* requests as the worker runtime delivers them: the URL is http(s), so
\* path_segments() is Some and its last element is api_path
SfRequests ==
    [urlOk : BOOLEAN, bodyOk : BOOLEAN, api_path : ApiPaths,
     accept : AcceptValues, referer : RefererValues]

\* worker::Response::from_bytes: Content-Type application/octet-stream
Response_from_bytes(body) ==
    [kind |-> "ok", status |-> 200,
     headers |-> Headers_set(Headers_new, "content-type",
                             "application/octet-stream"),
     body |-> body]
\* worker::Response::from_body: no header
Response_from_body(body) ==
    [kind |-> "ok", status |-> 200, headers |-> Headers_new, body |-> body]
with_headers(r, h) == [r EXCEPT !.headers = h]
\* the Err of worker::Result
ErrResult == [kind |-> "err", status |-> 0, headers |-> Headers_new,
              body |-> <<>>]

\* line 93: req.url()? fails
sf_url_error ==
    /\ sf_pc = "start"
    /\ ~sf_req.urlOk
    /\ sf_response' = ErrResult
    /\ sf_pc' = "returned"
    /\ UNCHANGED <<sf_req, sf_runtime, sf_body_read, sf_ctx, sf_data,
                   sf_calls, sf_result, sf_redirected>>
    /\ UNCHANGED except_sfVars

\* the response of the else branch, lines 204-225
NotFoundResponse(api_path) ==
    with_status(Response_from_bytes(
                  <<"Could not find a server function at the route", api_path>>),
                400)

\* Variant of sf_not_found: the runtime is created and the request snapshot
\* taken before the registry is consulted.
sf_not_found_eager ==
    /\ sf_pc = "start"
    /\ sf_req.urlOk
    /\ server_fn_by_path(sf_req.api_path) = None
    /\ sf_runtime' = "live"
    /\ sf_body_read' = TRUE
    /\ sf_response' = NotFoundResponse(sf_req.api_path)
    /\ sf_pc' = "returned"
    /\ UNCHANGED <<sf_req, sf_ctx, sf_data, sf_calls, sf_result,
                   sf_redirected>>
    /\ UNCHANGED except_sfVars

\* lines 93-103 and 203-227: no server function is registered at api_path
sf_not_found ==
    /\ sf_pc = "start"
    /\ sf_req.urlOk
    /\ server_fn_by_path(sf_req.api_path) = None
    /\ sf_response' = NotFoundResponse(sf_req.api_path)
    /\ sf_pc' = "returned"
    /\ UNCHANGED <<sf_req, sf_runtime, sf_body_read, sf_ctx, sf_data,
                   sf_calls, sf_result, sf_redirected>>
    /\ UNCHANGED except_sfVars

\* lines 93-104: a server function is registered at api_path
sf_create_runtime ==
    /\ sf_pc = "start"
    /\ sf_req.urlOk
    /\ server_fn_by_path(sf_req.api_path) # None
    /\ sf_runtime' = "live"
    /\ sf_pc' = "created"
    /\ UNCHANGED <<sf_req, sf_body_read, sf_ctx, sf_data, sf_calls,
                   sf_result, sf_redirected, sf_response>>
    /\ UNCHANGED except_sfVars

\* lines 106-116: the request snapshot (it cannot fail here, req.url()
\* succeeded at line 93), the contexts, the data of the call
sf_provide ==
    /\ sf_pc = "created"
    /\ generate_request_parts(sf_req).ok
    /\ sf_body_read' = TRUE
    /\ sf_ctx' = Some(ResponseOptions_default)
    /\ sf_data' =
         IF server_fn_by_path(sf_req.api_path)[1] \in {"Url", "Cbor"}
         THEN generate_request_parts(sf_req).parts.body
         ELSE "query"
    /\ sf_pc' = "provided"
    /\ UNCHANGED <<sf_req, sf_runtime, sf_calls, sf_result, sf_redirected,
                   sf_response>>
    /\ UNCHANGED except_sfVars

\* line 118: server_fn.call((), data).await.  The server function may call
\* redirect(path): use_context gives it a clone of the provided
\* ResponseOptions, the writes go to the clone, the context value stays.
sf_call(result, redirected) ==
    /\ sf_pc = "provided"
    /\ sf_calls' = sf_calls + 1
    /\ sf_result' = result
    /\ sf_redirected' = redirected
    /\ sf_pc' = "called"
    /\ UNCHANGED <<sf_req, sf_runtime, sf_body_read, sf_ctx, sf_data,
                   sf_response>>
    /\ UNCHANGED except_sfVars

ContentTypeOf(payload) ==
    CASE payload = "Binary" -> "application/cbor"
      [] payload = "Url" -> "application/x-www-form-urlencoded"
      [] payload = "Json" -> "application/json"

\* lines 119-193: the Ok arm; every payload arm returns from the handler
sf_respond_ok ==
    /\ sf_pc = "called"
    /\ sf_result \in Payloads
    /\ LET got == use_context(TRUE, sf_ctx[1])
           accept_header == sf_req.accept
           cloned == ResponseOptions_clone(got[1]).headers
           hs ==
               IF accept_header \in {Some("application/json"),
                                     Some("application/x-www-form-urlencoded"),
                                     Some("application/cbor")}
               THEN cloned
               ELSE Headers_set(cloned, "location",
                                unwrap_or(sf_req.referer, "/"))
           overriding == unwrap_or(got[1].status, 200)
       IN  sf_response' =
             with_headers(
               with_status(Response_from_body(<<"payload", sf_result>>), overriding),
               Headers_append(hs, "content-type", ContentTypeOf(sf_result)))
    /\ sf_pc' = "returned"
    /\ UNCHANGED <<sf_req, sf_runtime, sf_body_read, sf_ctx, sf_data,
                   sf_calls, sf_result, sf_redirected>>
    /\ UNCHANGED except_sfVars

\* Variant of sf_respond_err: the error response is sent back to the
\* referrer like a successful form submission.
sf_respond_err_redirecting ==
    /\ sf_pc = "called"
    /\ sf_result = "Err"
    /\ sf_response' =
         with_headers(
           with_status(Response_from_bytes(<<"error", "Err">>), 500),
           Headers_set(Response_from_bytes(<<>>).headers, "location",
                       unwrap_or(sf_req.referer, "/")))
    /\ sf_runtime' = "disposed"
    /\ sf_pc' = "returned"
    /\ UNCHANGED <<sf_req, sf_body_read, sf_ctx, sf_data, sf_calls,
                   sf_result, sf_redirected>>
    /\ UNCHANGED except_sfVars

\* lines 195-202: the Err arm, then runtime.dispose() and Ok(response)
sf_respond_err ==
    /\ sf_pc = "called"
    /\ sf_result = "Err"
    /\ sf_response' = with_status(Response_from_bytes(<<"error", "Err">>), 500)
    /\ sf_runtime' = "disposed"
    /\ sf_pc' = "returned"
    /\ UNCHANGED <<sf_req, sf_body_read, sf_ctx, sf_data, sf_calls,
                   sf_result, sf_redirected>>
    /\ UNCHANGED except_sfVars

InitServerFns ==
    /\ ReqIdle
    /\ writes = <<>>
    /\ OptionsIdle
    /\ RoutesIdle
    /\ GenIdle
    /\ TasksIdle
    /\ sf_req \in SfRequests
    /\ SfStart

NextServerFns ==
    \/ sf_url_error
    \/ sf_not_found
    \/ sf_create_runtime
    \/ sf_provide
    \/ \E result \in Payloads \cup {"Err"}, redirected \in {None, Some("/login")} :
          sf_call(result, redirected)
    \/ sf_respond_ok
    \/ sf_respond_err

SpecServerFns == InitServerFns /\ [][NextServerFns]_vars

(* =============================== claims ================================ *)
Last(q) == q[Len(q)]
FragsOf(ids) == [i \in 1..Len(ids) |-> Frag(ids[i])]
IsPrefix(p, q) == Len(p) <= Len(q) /\ \A i \in 1..Len(p) : p[i] = q[i]
Values(q) == {q[i] : i \in 1..Len(q)}
OnlyContentType == Headers_set(Headers_new, "content-type", "text/html")

\* C1: in each of the four strategies, when the renderer yields its N >= 1
\* fragments and redirect() is never called, the finished response has status
\* 200 and the chunks handed to the transport are exactly the head, the N
\* fragments in the order the stream yielded them (each once, document order
\* for InOrder and Async), then the tail; while streaming, what has been
\* handed over is a prefix of that.
C1_BodyIsHeadFragmentsTail ==
    redirects = <<>> =>
      /\ IsPrefix(sent, <<html_head(TRUE)>> \o FragsOf(yielded) \o <<TailChunk>>)
      /\ pc = "done" =>
           /\ response.open
           /\ response.status = 200
           /\ sent = <<html_head(TRUE)>> \o FragsOf(yielded) \o <<TailChunk>>
           /\ Len(yielded) = nfrags
           /\ Values(yielded) = 1..nfrags
           /\ mode \in {"InOrder", "Async"} =>
                \A i \in 1..nfrags : yielded[i] = i

C1_Witness ==
    /\ pc = "done"
    /\ redirects = <<>>
    /\ mode = "OutOfOrder"
    /\ yielded = <<1, 3, 2>>
    /\ Len(sent) = 5

\* C2 (as claimed): in all four strategies, when redirect(path) was called in
\* the render context before the renderer produced its first fragment, the
\* response returned by the handler has status 302 and the Location header
\* of the last such call.
RedirectedBeforeFirstFragment ==
    /\ redirects # <<>>
    /\ \A i \in 1..Len(redirects) :
         redirects[i].inContext /\ redirects[i].produced = 0

C2_EarlyRedirectGives302 ==
    (response.open /\ RedirectedBeforeFirstFragment) =>
      /\ response.status = 302
      /\ response.headers["location"] = <<Last(redirects).path>>

\* C3 (as claimed): after redirect(path) in a render context that provides a
\* ResponseOptions, the ResponseOptions held by the context has status 302
\* and exactly one location value, path; with no ResponseOptions in context
\* redirect changes nothing.
C3_RedirectVisibleInContext ==
    redirects # <<>> =>
      IF Last(redirects).inContext
      THEN /\ ctx_options.status = Some(302)
           /\ ctx_options.headers["location"] = <<Last(redirects).path>>
      ELSE /\ ~ctx_provided
           /\ ctx_options = ResponseOptions_default
           /\ res_options = ResponseOptions_default

\* C4: in the streaming strategies, when every redirect() call came after the
\* renderer had produced its second fragment, the opened response has status
\* 200 and no header besides Content-Type; and once the response is opened
\* no step changes its status or headers.
C4_LateMutationNotReflected ==
    /\ [](( /\ mode \in StreamingModes
            /\ response.open
            /\ \A i \in 1..Len(redirects) : redirects[i].produced >= 2 )
          => (response.status = 200 /\ response.headers = OnlyContentType))
    /\ [][ (mode \in StreamingModes /\ response.open) => response' = response ]_vars

C4_Witness ==
    /\ mode \in StreamingModes
    /\ response.open
    /\ redirects # <<>>
    /\ \A i \in 1..Len(redirects) :
         redirects[i].produced >= 2 /\ redirects[i].inContext
    /\ Last(redirects).afterRead

\* C5: in the streaming strategies the head is computed when exactly one
\* next() of the underlying stream has completed: not before the first
\* fragment was produced (the head carries the metadata registered by it),
\* and no second fragment is requested while the head is not yet computed.
C5_HeadAfterExactlyOneFragment ==
    mode \in StreamingModes =>
      /\ head = NoChunk => (pulls <= 1 /\ pullsAtHead = -1)
      /\ head # NoChunk =>
           /\ pullsAtHead = 1
           /\ head = html_head(TRUE)
           /\ first_app_chunk = Frag(yielded[1])

C5_Witness ==
    /\ mode = "InOrder"
    /\ head = html_head(TRUE)
    /\ pullsAtHead = 1
    /\ pulls = 3

\* C6: in the streaming strategies res_options.status is read at most once,
\* and exactly once before the response is opened; when it is read the head
\* and the primed first fragment are both in hand and only one next() of the
\* underlying stream has completed, and the response is opened in that state,
\* whatever fragments are still pending.
C6_StatusReadOnceAfterPriming ==
    mode \in StreamingModes =>
      /\ statusReads <= 1
      /\ response.open => statusReads = 1
      /\ statusReads = 1 =>
           /\ pullsAtStatus = 1
           /\ first_chunk = head /\ head # NoChunk
           /\ second_chunk = first_app_chunk /\ first_app_chunk # NoChunk
      /\ (pc = "statusread" \/ (pc = "opened" /\ sent = <<>>)) => pulls = 1

C6_Witness ==
    /\ mode \in StreamingModes
    /\ response.open
    /\ statusReads = 1
    /\ stalled
    /\ Cardinality(pending) = 2
    /\ sent = <<>>

\* C7: in the Async strategy nothing is handed to the transport, the status
\* is not read and no response exists until every fragment has been taken
\* from the stream and the stream has ended; a renderer that hangs before
\* that leaves the request without a response.
C7_AsyncWaitsForExhaustion ==
    mode = "Async" =>
      /\ (sent # <<>> \/ statusReads > 0 \/ response.open \/ pc = "done") =>
           /\ pending = {} /\ queue = <<>>
           /\ Len(yielded) = nfrags
           /\ pulls = nfrags + 1
      /\ (stalled /\ pending # {}) =>
           (~response.open /\ sent = <<>> /\ statusReads = 0)

C7_Witness ==
    /\ mode = "Async"
    /\ response.open
    /\ nfrags = 3
    /\ Len(sent) = 5

\* C8 (as claimed): in the streaming strategies the runtime is disposed
\* exactly once, and only after the last chunk, the tail included, has been
\* handed to the transport.
C8_DisposedAfterTailHanded ==
    mode \in StreamingModes =>
      /\ disposed <= 1
      /\ pc = "done" => disposed = 1
      /\ disposed >= 1 =>
           (sentAtDispose >= 1 /\ sent[sentAtDispose] = TailChunk)

\* C8 (amended): in the streaming strategies the runtime is disposed at most
\* once, by the production step of the tail: after the head, the primed
\* first fragment and every fragment of the underlying stream have been
\* handed to the transport and before the tail is; whenever the tail has
\* been handed over the runtime has been disposed exactly once.
C8_DisposedByTailProduction ==
    mode \in StreamingModes =>
      /\ disposed <= 1
      /\ disposed = 1 <=> tailState # "unpolled"
      /\ (TailChunk \in Values(sent) \/ pc = "done") => disposed = 1
      /\ disposed = 1 =>
           /\ sentAtDispose = nfrags + 1
           /\ pending = {} /\ queue = <<>>
           /\ IsPrefix(<<head>> \o FragsOf(yielded), sent)
           /\ Len(yielded) = nfrags
           /\ \A i \in 1..sentAtDispose : sent[i] # TailChunk

C8_Witness ==
    /\ mode \in StreamingModes
    /\ disposed = 1
    /\ tailState = "produced"
    /\ nfrags = 2
    /\ Len(sent) = 3

\* C9 (as claimed): when the client disconnects after the response was
\* opened and before the tail was consumed, no further fragment is requested
\* and, once the request has come to rest, the runtime has been disposed.
C9_DisconnectDisposesRuntime ==
    (cancelled /\ ~ENABLED Next) => disposed = 1

\* C10 (as claimed): in all four strategies the response carries, besides
\* Content-Type, every header value that rendering code had put into its
\* ResponseOptions when the status was read.
WrittenBeforeRead ==
    {i \in 1..Len(redirects) :
        redirects[i].inContext /\ ~redirects[i].afterRead}

C10_ResponseCarriesAccumulatedHeaders ==
    response.open =>
      /\ "text/html" \in Values(response.headers["content-type"])
      /\ \A i \in WrittenBeforeRead :
           \A k \in HeaderKeys :
             Values(redirects[i].local.headers[k]) \subseteq
               Values(response.headers[k])

\* C11: every response of the four rendering handlers has Content-Type
\* exactly text/html, whatever header writes (a content-type of its own
\* included) rendering code made through ResponseOptions.
C11_ContentTypeIsTextHtml ==
    response.open => response.headers["content-type"] = <<"text/html">>

C11_Witness ==
    /\ response.open
    /\ Len(writes) = 2
    /\ writes[1].key = "content-type"
    /\ writes[1].value = "application/json"
    /\ ~writes[1].afterRead
    /\ writes[2].key = "content-type"
    /\ writes[2].op = "append"

\* C14: in the streaming strategies the chunks the assembler has produced or
\* taken from the renderer and not yet handed to the transport are at most
\* the two primed ones, and once the first fragment is primed a further
\* next() of the underlying stream completes only inside a step in which the
\* transport, having taken both primed elements of the opened response,
\* receives the chunk (or the tail is produced).
ProducedByAssembler ==
    (IF head # NoChunk THEN 1 ELSE 0) + Len(yielded)
      + (IF tailState # "unpolled" THEN 1 ELSE 0)
Held == ProducedByAssembler - Len(sent)

C14_HoldsAtMostPrimedPair ==
    /\ [](mode \in StreamingModes =>
            /\ Held \in 0..2
            /\ Len(primed) <= 2
            /\ (response.open /\ primed = <<>>) => Held <= 1)
    /\ [][ (mode \in StreamingModes /\ pulls >= 1 /\ pulls' # pulls) =>
             /\ response.open /\ primed = <<>>
             /\ pulls' = pulls + 1
             /\ \/ sent' = Append(sent, Frag(Last(yielded')))
                \/ (tailState = "unpolled" /\ tailState' = "produced") ]_vars

C14_Witness ==
    /\ mode \in StreamingModes
    /\ response.open
    /\ Len(primed) = 2
    /\ Held = 2
    /\ Len(queue) = 2

\* C16: the request snapshot is built whenever the URL can be parsed (an
\* unreadable body gives an empty body), and when the URL cannot be parsed
\* the handler ends with an error: the application function never ran (no
\* context was provided), no fragment was produced or taken, no status was
\* read and no response exists.
C16_SnapshotFailsOnlyOnUrl ==
    /\ (req.urlOk /\ pc # "start") =>
         /\ request_parts.built
         /\ request_parts.body = (IF req.bodyOk THEN "payload" ELSE "")
    /\ ~req.urlOk =>
         /\ pc \in {"start", "error"}
         /\ ~request_parts.built
         /\ ~ctx_provided
         /\ pending = 1..nfrags /\ queue = <<>> /\ yielded = <<>> /\ pulls = 0
         /\ head = NoChunk /\ first_app_chunk = NoChunk
         /\ statusReads = 0
         /\ response = NoResponse /\ sent = <<>>

C16_Witness ==
    /\ pc = "error"
    /\ ~req.urlOk
    /\ ~req.bodyOk

\* C17: whenever a rendering handler has ended with an error, no response
\* exists (no status, no header committed) and nothing has been handed to the
\* transport.
C17_ErrorBeforeAnythingCommitted ==
    pc = "error" => (response = NoResponse /\ sent = <<>>)

C17_Witness ==
    /\ pc = "error"
    /\ req.urlOk
    /\ mode \in StreamingModes
    /\ statusReads = 1
    /\ first_chunk # NoChunk

\* C15: insert_header(k, v) leaves exactly the one value v under k whatever k
\* held before, append_header(k, v) keeps every value k held and adds v after
\* them, and neither changes the status or the values of another key.
C15_InsertOverwritesAppendAdds ==
    lastOp.op # "none" =>
      /\ opts.status = optsBefore.status
      /\ \A k \in HeaderKeys \ {lastOp.key} :
           opts.headers[k] = optsBefore.headers[k]
      /\ lastOp.op = "insert" => opts.headers[lastOp.key] = <<lastOp.value>>
      /\ lastOp.op = "append" =>
           /\ Len(opts.headers[lastOp.key]) =
                Len(optsBefore.headers[lastOp.key]) + 1
           /\ IsPrefix(optsBefore.headers[lastOp.key], opts.headers[lastOp.key])
           /\ Last(opts.headers[lastOp.key]) = lastOp.value

C15_Witness ==
    /\ lastOp = [op |-> "insert", key |-> "location", value |-> "/login"]
    /\ Len(optsBefore.headers["location"]) = 2
    /\ optsBefore.headers["content-type"] # <<>>
    /\ opts.status = Some(302)

\* C12: when leptos_routes returns, every (path, method) pair of every
\* listing has exactly one registration, nothing else is registered, and at
\* every moment each registration carries the handler of its listing's
\* strategy: OutOfOrder -> stream_app without block replacement,
\* PartiallyBlocked -> stream_app with block replacement, InOrder ->
\* stream_app_in_order, Async -> render_app_async_helper.
ShapeOf(m) ==
    IF m = "OutOfOrder" THEN [builder |-> "stream_app", replace_blocks |-> FALSE]
    ELSE IF m = "PartiallyBlocked"
         THEN [builder |-> "stream_app", replace_blocks |-> TRUE]
    ELSE IF m = "InOrder"
         THEN [builder |-> "stream_app_in_order", replace_blocks |-> FALSE]
    ELSE [builder |-> "render_app_async_helper", replace_blocks |-> FALSE]

RoutesDone == li = Len(paths) + 1

C12_OneHandlerPerPathAndMethod ==
    \A p \in RoutePaths, m \in Methods :
      /\ Len(cf_router[<<m, p>>]) <= 1
      /\ cf_router[<<m, p>>] # <<>> =>
           \E i \in 1..Len(paths) :
             /\ paths[i].path = p
             /\ m \in paths[i].methods
             /\ cf_router[<<m, p>>] = <<ShapeOf(paths[i].mode)>>
      /\ RoutesDone =>
           \A i \in 1..Len(paths) :
             (paths[i].path = p /\ m \in paths[i].methods) =>
               cf_router[<<m, p>>] = <<ShapeOf(paths[i].mode)>>

C12_Witness ==
    /\ RoutesDone
    /\ Len(paths) = 2
    /\ paths[1].mode = "PartiallyBlocked" /\ paths[1].methods = {"Get", "Post"}
    /\ paths[2].mode = "Async" /\ paths[2].methods = {"Put", "Delete", "Patch"}
    /\ cf_router[<<"Patch", paths[2].path>>] # <<>>
    /\ cf_router[<<"Post", paths[1].path>>] # <<>>

\* C18 (as claimed): no listing returned by
\* generate_route_list_with_exclusions has a path that is an entry of
\* excluded_routes, also when the application declares no route.
C18_NoExcludedPathReturned ==
    (gen_pc = "done" /\ excluded.some) =>
      \A j \in 1..Len(routes) : routes[j].path \notin excluded.entries

\* C19: no listing returned by generate_route_list(_with_exclusions) has the
\* empty path; the listings returned are, in discovery order, the discovered
\* routes whose path ("/" for the empty one) is not excluded: one discovered
\* with the empty path comes back with path "/" and its mode and methods,
\* any other comes back unchanged.
PathReturned(l) == IF l.path = "" THEN "/" ELSE l.path
Kept(i) ==
    ~excluded.some \/ PathReturned(discovered[i]) \notin excluded.entries
KeptUpTo(i) == Cardinality({k \in 1..i : Kept(k)})

C19_NoEmptyPathOrderKept ==
    gen_pc = "done" =>
      /\ \A j \in 1..Len(routes) : routes[j].path # ""
      /\ discovered # <<>> =>
           /\ Len(routes) = KeptUpTo(Len(discovered))
           /\ \A i \in 1..Len(discovered) :
                Kept(i) =>
                  /\ routes[KeptUpTo(i)].path = PathReturned(discovered[i])
                  /\ routes[KeptUpTo(i)].mode = discovered[i].mode
                  /\ routes[KeptUpTo(i)].methods = discovered[i].methods
                  /\ discovered[i].path # "" =>
                       routes[KeptUpTo(i)] = discovered[i]

C19_Witness ==
    /\ gen_pc = "done"
    /\ Len(discovered) = 2
    /\ discovered[1].path = "/a"
    /\ discovered[2].path = ""
    /\ discovered[2].mode = "Async"
    /\ discovered[2].methods = {"Get", "Post"}
    /\ excluded = [some |-> TRUE, entries |-> {"/a"}]
    /\ Len(routes) = 1
    /\ routes[1].path = "/"

\* C13: every request starts from a fresh ResponseOptions (status 200, no
\* header), and whatever the interleaving of the requests, the response of a
\* request shows no status or header mutation made while rendering another
\* request: a request whose own rendering mutated nothing still holds the
\* fresh value in its context and answers 200 without a Location header, and
\* a Location value of a response is one the request itself redirected to.
C13_FreshAndIsolated ==
    \A r \in Requests :
      /\ task_pc[r] = "entered" => task_res_options[r] = ResponseOptions_default
      /\ (RuntimeOf(r) /\ task_redirects[r] = {}) =>
           task_ctx[r] = ResponseOptions_default
      /\ task_pc[r] = "responded" =>
           /\ Values(task_response[r].headers["location"]) \subseteq task_redirects[r]
           /\ task_response[r].status # 200 => task_redirects[r] # {}

C13_Witness ==
    /\ task_pc[1] = "responded"
    /\ task_redirects[1] = {}
    /\ 2 \in task_seen[1]
    /\ task_response[1].status = 200
    /\ task_pc[2] = "responded"
    /\ task_redirects[2] = {"/login"}

\* C20: when the last path segment of the request URL names no registered
\* server function, handle_server_fns returns a response with status 400
\* and a body that says so, and it has created no runtime, has not read the
\* request body and has invoked no server function.
C20_UnregisteredGives400 ==
    (/\ sf_pc = "returned"
     /\ sf_req.urlOk
     /\ sf_req.api_path \notin DOMAIN ServerFns) =>
      /\ sf_response.kind = "ok"
      /\ sf_response.status = 400
      /\ sf_response.body =
           <<"Could not find a server function at the route", sf_req.api_path>>
      /\ sf_runtime = "none"
      /\ ~sf_body_read
      /\ sf_calls = 0

C20_Witness ==
    /\ sf_pc = "returned"
    /\ sf_req.urlOk
    /\ sf_req.api_path = "missing"
    /\ sf_response.status = 400

AcceptedTypes ==
    {Some("application/json"), Some("application/x-www-form-urlencoded"),
     Some("application/cbor")}
SfSucceeded == sf_pc = "returned" /\ sf_result \in Payloads

\* C21 (as claimed): when the server function succeeds and Accept is absent
\* or none of the three serialisation types, the response has a 3xx status
\* and its Location is the Referer value, or "/" without a Referer; with one
\* of the three types the handler adds no Location.
C21_FormSubmitRedirectsToReferer ==
    SfSucceeded =>
      IF sf_req.accept \in AcceptedTypes
      THEN sf_response.headers["location"] = <<>>
      ELSE /\ sf_response.status \in 300..399
           /\ sf_response.headers["location"] =
                <<unwrap_or(sf_req.referer, "/")>>

\* C22 (as claimed): when the server function succeeds, what it set on the
\* ResponseOptions of its context is in the response: after redirect(path)
\* the status is 302 and Location carries path; without a write the status
\* is 200.
C22_ServerFnOptionsReachResponse ==
    SfSucceeded =>
      IF sf_redirected = None
      THEN sf_response.status = 200
      ELSE /\ sf_response.status = 302
           /\ sf_redirected[1] \in Values(sf_response.headers["location"])

\* C23: when the server function returns an error, the handler returns a
\* response with status 500 whose body is the error's description, without
\* a Location header and with no header taken from ResponseOptions (only
\* the Content-Type of from_bytes).
C23_ServerFnErrorGives500 ==
    (sf_pc = "returned" /\ sf_result = "Err") =>
      /\ sf_response.kind = "ok"
      /\ sf_response.status = 500
      /\ sf_response.body = <<"error", "Err">>
      /\ sf_response.headers["location"] = <<>>
      /\ sf_response.headers["content-type"] = <<"application/octet-stream">>

C23_Witness ==
    /\ sf_pc = "returned"
    /\ sf_result = "Err"
    /\ sf_redirected = Some("/login")
    /\ sf_req.accept = Some("text/html")
    /\ sf_req.referer = Some("/home")
    /\ sf_response.status = 500

\* C24 (as claimed): when handle_server_fns has returned, a runtime it
\* created has been disposed.
C24_RuntimeDisposedOnReturn ==
    sf_pc = "returned" => sf_runtime # "live"

\* C25: in the streaming strategies, for every length of the underlying
\* fragment sequence (0 and 1 included), the two elements forced during
\* priming are the head and the first body fragment (the empty fragment when
\* the sequence is empty), never the tail, and the runtime is not disposed
\* before the status has been read and the response opened.
C25_PrimingNeverReachesTail ==
    mode \in StreamingModes =>
      /\ pc \in {"second", "statusread", "opened", "done"} =>
           /\ first_chunk = head
           /\ second_chunk = first_app_chunk
           /\ second_chunk # TailChunk
           /\ second_chunk = IF nfrags = 0 THEN EmptyChunk
                             ELSE Frag(yielded[1])
      /\ pc \in {"start", "created", "primed", "headed", "first", "second",
                 "statusread", "error"} =>
           disposed = 0 /\ tailState = "unpolled"
      /\ disposed > 0 => statusReads = 1 /\ response.open

C25_Witness ==
    /\ mode \in StreamingModes
    /\ nfrags = 0
    /\ pc = "opened"
    /\ second_chunk = EmptyChunk
    /\ disposed = 0

\* C26: build_stream_response finds both primed elements for every
\* underlying sequence: they exist when the response is built, a finished
\* response has handed over at least three elements (head, first body
\* fragment, tail), and for the empty sequence the response has status 200
\* and its body is the head, an empty fragment, then the tail.
C26_NoMissingElement ==
    mode \in StreamingModes =>
      /\ pc \in {"second", "statusread", "opened", "done"} =>
           first_chunk # NoChunk /\ second_chunk # NoChunk
      /\ pc = "done" =>
           /\ Len(sent) >= 3
           /\ nfrags = 0 =>
                /\ response.status = 200
                /\ sent = <<head, EmptyChunk, TailChunk>>
                /\ head = html_head(TRUE)

C26_Witness ==
    /\ mode \in StreamingModes
    /\ nfrags = 0
    /\ pc = "done"
    /\ Len(sent) = 3

\* C27: the response is the same function of the fragment sequence in every
\* strategy, whatever redirects the rendering code made: status and headers
\* are equal, the three streaming strategies hand over the same ordered
\* chunks (head, the fragments as yielded, tail), and the body of the Async
\* response is the concatenation of those chunks.
Concatenation(chunks) == SelectSeq(chunks, LAMBDA c : c # EmptyChunk)
ChunksFor(ys) == <<html_head(TRUE)>> \o FragsOf(ys) \o <<TailChunk>>

====
